---- MODULE Spec2Model ----
(***************************************************************************)
(* Model of real_time_denoiser.py: the orchestrator thread                 *)
(* (main / iq_processing_loop), the frequency-entry producer thread        *)
(* (frequency_input_loop), the rtl_sdr capture processes with their stdout *)
(* pipes, and the TCP delivery connection.                                 *)
(*                                                                         *)
(* The orchestrator is cut into steps at every call that blocks or that    *)
(* changes a resource; pc names the statement it executes next.            *)
(***************************************************************************)
EXTENDS Integers, Sequences, FiniteSets, TLC

\* ---------------------------------------------------------------- bounds
\* Number of values the operator enters during a run.
MaxPuts == 2
\* Number of bytes the capture processes write during a run, all together.
MaxOut == 4
\* Capacity of a capture process's stdout pipe, in bytes: a writer blocks on
\* a full pipe.
PipeCap == 2
\* Framing alone: chunks of up to FrameMaxN complex samples.
FrameMaxN == 2
\* The denoiser alone: vectors of up to DenMaxLen elements.
DenMaxLen == 2

\* ------------------------------------------------------ program constants
\* CHUNK_SIZE is 4096 in the source; the model scales it to one complex
\* sample per chunk (one I byte and one Q byte), every comparison with it is
\* kept as the code writes it.
CHUNK_SIZE == 1
DEFAULT_FREQ == 102000000
\* The denoiser computes in floats; the model computes in thousandths:
\* EPSILON = 1e-3 is 1, LAMBDA_L1 = 0.1415... is 141, the samples lie in
\* -1000..1000.
Milli == 1000
EPSILON == 1
LAMBDA_L1 == 141
\* options={"maxiter": 30}
MAXITER == 30

\* The operator's entries, in MHz; float(m) * 1e6 is exact for these.
InputsMHz == {101, 102, 103}

\* int(float(user_input) * 1e6)
ParseFreq(mhz) == mhz * 1000000

\* Capture processes are numbered in the order they are spawned; every
\* restart consumes one queued value, so MaxPuts + 1 processes suffice.
Sessions == 1..(MaxPuts + 1)

\* Outcomes of conn.sendall: delivered, or one of the OSError subclasses the
\* transport raises.
SendOutcomes == {"ok", "BrokenPipeError", "ConnectionResetError", "TimeoutError"}

VARIABLES
    pc,             \* statement the orchestrator thread executes next
    srvRet,         \* caller of start_tcp_server: "L81" or "L116"
    current_freq,   \* global current_freq
    proc,           \* global proc: 0 is None, else the process it refers to
    conn,           \* global conn: 0 is None, else the connection it refers to
    freq_queue,     \* global freq_queue
    terminate_flag, \* global terminate_flag
    raw,            \* local raw of iq_processing_loop
    nspawn,         \* number of capture processes spawned so far
    pstate,         \* per process: "none", "running", "exited", "killed", "reaped"
    sfreq,          \* per process: the -f argument it was started with
    pipe,           \* per process: bytes written to stdout and not yet read
    nout,           \* per process: number of bytes written so far
    nconn,          \* number of consumer connections accepted so far
    open,           \* the accepted connections that are open
    listeners,      \* number of open listening sockets
    down,           \* TRUE from a failed send until the next consumer is accepted
    fault,          \* the exception nothing caught, "" if none
    faultAt,        \* the statement that raised it
    nputs,          \* number of values the producer has put
    delivered,      \* history: the chunks sendall delivered, in order
    lost,           \* history: the chunks whose sendall raised
    skipped,        \* history: the bytes of short reads
    listenCalls,    \* history: number of calls of s.listen
    sendFails,      \* history: number of sendall failures the except clause caught
    drainPending,   \* history: freq_queue when the current drain began
    drainGot,       \* history: values dequeued by the current drain
    drainRestarts,  \* history: capture restarts begun by the current drain
    drainStartFreq, \* history: current_freq when the current drain began
    putLog,         \* history: the values the producer has put, in order
    gotLog,         \* history: the values the orchestrator has dequeued, in order
    chunk,          \* framing alone: the bytes of one read, as numbers 0..255
    fI,             \* framing alone: i of lines 102-104
    fQ,             \* framing alone: q of lines 102-105
    dv,             \* denoise_vector alone: its argument data
    dx,             \* denoise_vector alone: the solver's iterate x
    dit,            \* denoise_vector alone: iterations done
    dstat           \* denoise_vector alone: "idle", "run", "done"

prog == <<pc, srvRet, current_freq, proc, conn, freq_queue, terminate_flag, raw>>
capt == <<nspawn, pstate, sfreq, pipe, nout>>
net  == <<nconn, open, listeners, down>>
hist == <<delivered, lost, skipped, listenCalls, sendFails>>
drn  == <<drainPending, drainGot, drainRestarts, drainStartFreq>>
flt  == <<fault, faultAt>>
req  == <<putLog, gotLog>>
frm  == <<chunk, fI, fQ>>
den  == <<dv, dx, dit, dstat>>
pipeline == <<prog, capt, net, hist, drn, flt, nputs, req>>
vars == <<pipeline, frm, den>>

\* Statements of iq_processing_loop (STARTING: lines 80-81, RUNNING: 83-116).
StartingPcs == {"spawn0", "assign0"}
LoopPcs == {"while", "drain", "kill", "wait", "spawn", "assign", "read", "send"}
ServerPcs == {"bind", "accept"}
LivePcs == StartingPcs \cup LoopPcs \cup ServerPcs

Starting == pc \in StartingPcs \/ (pc \in ServerPcs /\ srvRet = "L81")
Running == pc \in LoopPcs \/ (pc \in ServerPcs /\ srvRet = "L116")

\* The pipeline before main runs; the framing and the denoiser, which the
\* pipeline calls as pure functions, are followed in specifications of
\* their own and rest here.
FrameIdle == chunk = <<>> /\ fI = <<>> /\ fQ = <<>>
DenoiseIdle == dv = <<>> /\ dx = <<>> /\ dit = 0 /\ dstat = "idle"

PipelineInit ==
    /\ pc = "spawn0"
    /\ srvRet = "L81"
    /\ current_freq = DEFAULT_FREQ
    /\ proc = 0
    /\ conn = 0
    /\ freq_queue = <<>>
    /\ terminate_flag = FALSE
    /\ raw = <<>>
    /\ nspawn = 0
    /\ pstate = [s \in Sessions |-> "none"]
    /\ sfreq = [s \in Sessions |-> 0]
    /\ pipe = [s \in Sessions |-> <<>>]
    /\ nout = [s \in Sessions |-> 0]
    /\ nconn = 0
    /\ open = {}
    /\ listeners = 0
    /\ down = FALSE
    /\ fault = ""
    /\ faultAt = ""
    /\ nputs = 0
    /\ delivered = <<>>
    /\ lost = {}
    /\ skipped = {}
    /\ listenCalls = 0
    /\ sendFails = 0
    /\ drainPending = <<>>
    /\ drainGot = <<>>
    /\ drainRestarts = 0
    /\ drainStartFreq = DEFAULT_FREQ
    /\ putLog = <<>>
    /\ gotLog = <<>>

Init == PipelineInit /\ FrameIdle /\ DenoiseIdle

\* ------------------------------------------------------- helpers of the code
\* A drain that stops with one value still queued.
QueueEmptyLeavesOne(q) == Len(q) <= 1

\* line 86: freq_queue.empty()
QueueEmpty(q) == q = <<>>

\* A comparison that applies only a higher frequency.
NeedsRestartUpOnly(new_freq, cur) == new_freq > cur

\* line 88: new_freq != current_freq
NeedsRestart(new_freq, cur) == new_freq # cur

\* A length test that lets a partial chunk through.
IsShortEmptyOnly(n) == n < 1

\* line 99: len(raw) < CHUNK_SIZE * 2
IsShort(n) == n < CHUNK_SIZE * 2

\* An except clause that names the broken pipe alone.
CaughtPipeOnly(exc) == exc = "BrokenPipeError"

\* line 113: except (BrokenPipeError, ConnectionResetError)
Caught(exc) == exc \in {"BrokenPipeError", "ConnectionResetError"}

\* A close that leaves the connection open.
CloseConnNot(o, c) == o

\* lines 115 and 128: conn.close()
CloseConn(o, c) == o \ {c}

\* Popen.kill(): SIGKILL to a process that has not been waited for; nothing
\* once its return code is known.
Killed(st) == IF st = "running" THEN "killed" ELSE st

\* A restart that does not wait for the killed process.
WaitedNoReap(st) == st

\* Popen.wait(): reaps the process that was killed or has exited.
Waited(st) == IF st \in {"killed", "exited"} THEN "reaped" ELSE st

\* A read that returns as soon as one byte is there, as an unbuffered pipe
\* does.
CanReadPartial(buf, n, eof) == Len(buf) >= 1 \/ eof

\* proc.stdout.read(n) on the buffered pipe: n bytes once n are there, and
\* what is left at end of file; it blocks otherwise.
CanRead(buf, n, eof) == Len(buf) >= n \/ eof
ReadBytes(buf, n) == SubSeq(buf, 1, IF Len(buf) >= n THEN n ELSE Len(buf))
RestBytes(buf, n) == SubSeq(buf, (IF Len(buf) >= n THEN n ELSE Len(buf)) + 1, Len(buf))

\* lines 104-105: iq[start::2], every other element from index start
\* (counted from 0).
Stride2(seq, start) ==
    [k \in 1..((Len(seq) - start + 1) \div 2) |-> seq[start + 2 * (k - 1) + 1]]

\* An assembly that takes the real part from q and the imaginary from i.
AssembleSwapped(i_d, q_d) ==
    [k \in 1..(IF Len(i_d) = Len(q_d) THEN Len(i_d)
               ELSE IF Len(i_d) = 1 THEN Len(q_d) ELSE Len(i_d)) |->
        [re |-> q_d[IF Len(q_d) = 1 THEN 1 ELSE k],
         im |-> i_d[IF Len(i_d) = 1 THEN 1 ELSE k]]]

\* line 109: i_d + 1j * q_d, element by element; numpy stretches a vector
\* of length 1 to the length of the other.
Assemble(i_d, q_d) ==
    [k \in 1..(IF Len(i_d) = Len(q_d) THEN Len(i_d)
               ELSE IF Len(i_d) = 1 THEN Len(q_d) ELSE Len(i_d)) |->
        [re |-> i_d[IF Len(i_d) = 1 THEN 1 ELSE k],
         im |-> q_d[IF Len(q_d) = 1 THEN 1 ELSE k]]]

\* Bytes written so far by all capture processes.
RECURSIVE SumTo(_, _)
SumTo(f, n) == IF n = 0 THEN 0 ELSE f[n] + SumTo(f, n - 1)
TotalOut == SumTo(nout, MaxPuts + 1)

Range(f) == {f[i] : i \in DOMAIN f}
Last(q) == q[Len(q)]

\* ------------------------------------------------------------ orchestrator
\* start_rtl_sdr (lines 49-54), called at line 80 and at line 93: Popen
\* returns the new process; the global proc is not assigned yet.
StartRtlSdr ==
    /\ pc \in {"spawn0", "spawn"}
    /\ nspawn + 1 \in Sessions
    /\ nspawn' = nspawn + 1
    /\ pstate' = [pstate EXCEPT ![nspawn + 1] = "running"]
    /\ sfreq' = [sfreq EXCEPT ![nspawn + 1] = current_freq]
    /\ drainRestarts' = IF pc = "spawn" THEN drainRestarts + 1 ELSE drainRestarts
    /\ pc' = IF pc = "spawn0" THEN "assign0" ELSE "assign"
    /\ UNCHANGED <<srvRet, current_freq, proc, conn, freq_queue, terminate_flag, raw>>
    /\ UNCHANGED <<pipe, nout, net, hist, flt, nputs>>
    /\ UNCHANGED <<drainPending, drainGot, drainStartFreq>>
    /\ UNCHANGED req
    /\ UNCHANGED <<frm, den>>

\* Popen raises (rtl_sdr missing, fork failure): nothing catches it.
SpawnFault ==
    /\ pc \in {"spawn0", "spawn"}
    /\ fault' = "OSError"
    /\ faultAt' = pc
    /\ pc' = "crashed"
    /\ UNCHANGED <<srvRet, current_freq, proc, conn, freq_queue, terminate_flag, raw>>
    /\ UNCHANGED <<capt, net, hist, drn, nputs>>
    /\ UNCHANGED req
    /\ UNCHANGED <<frm, den>>

\* lines 80 and 93: proc = <the value start_rtl_sdr returned>
AssignProc ==
    /\ pc \in {"assign0", "assign"}
    /\ proc' = nspawn
    /\ pc' = IF pc = "assign0" THEN "bind" ELSE "drain"
    /\ srvRet' = IF pc = "assign0" THEN "L81" ELSE srvRet
    /\ UNCHANGED <<current_freq, conn, freq_queue, terminate_flag, raw>>
    /\ UNCHANGED <<capt, net, hist, drn, flt, nputs>>
    /\ UNCHANGED req
    /\ UNCHANGED <<frm, den>>

\* start_tcp_server lines 57-60: socket, bind, listen.
TcpBind ==
    /\ pc = "bind"
    /\ listeners' = listeners + 1
    /\ listenCalls' = listenCalls + 1
    /\ pc' = "accept"
    /\ UNCHANGED <<srvRet, current_freq, proc, conn, freq_queue, terminate_flag, raw>>
    /\ UNCHANGED <<capt, nconn, open, down, delivered, lost, skipped, sendFails>>
    /\ UNCHANGED <<drn, flt, nputs>>
    /\ UNCHANGED req
    /\ UNCHANGED <<frm, den>>

\* bind, listen or accept raises OSError: nothing catches it.
ServerFault ==
    /\ pc \in ServerPcs
    /\ fault' = "OSError"
    /\ faultAt' = pc
    /\ pc' = "crashed"
    /\ UNCHANGED <<srvRet, current_freq, proc, conn, freq_queue, terminate_flag, raw>>
    /\ UNCHANGED <<capt, net, hist, drn, nputs>>
    /\ UNCHANGED req
    /\ UNCHANGED <<frm, den>>

\* start_tcp_server lines 61-63 and the assignment to conn (lines 81, 116):
\* a consumer connects; the listening socket s goes out of scope on return
\* and is closed with its last reference.
TcpAccept ==
    /\ pc = "accept"
    /\ nconn' = nconn + 1
    /\ open' = open \cup {nconn + 1}
    /\ conn' = nconn + 1
    /\ listeners' = listeners - 1
    /\ down' = FALSE
    /\ pc' = "while"
    /\ UNCHANGED <<srvRet, current_freq, proc, freq_queue, terminate_flag, raw>>
    /\ UNCHANGED <<capt, hist, drn, flt, nputs>>
    /\ UNCHANGED req
    /\ UNCHANGED <<frm, den>>

\* line 83: while not terminate_flag.is_set(); a new iteration's drain begins.
While ==
    /\ pc = "while"
    /\ ~terminate_flag
    /\ pc' = "drain"
    /\ drainPending' = freq_queue
    /\ drainGot' = <<>>
    /\ drainRestarts' = 0
    /\ drainStartFreq' = current_freq
    /\ UNCHANGED <<srvRet, current_freq, proc, conn, freq_queue, terminate_flag, raw>>
    /\ UNCHANGED <<capt, net, hist, flt, nputs>>
    /\ UNCHANGED req
    /\ UNCHANGED <<frm, den>>

\* lines 86-90: one value is dequeued; a value that differs from
\* current_freq becomes current_freq and begins a restart.
DrainGet ==
    /\ pc = "drain"
    /\ ~QueueEmpty(freq_queue)
    /\ LET new_freq == Head(freq_queue) IN
        /\ freq_queue' = Tail(freq_queue)
        /\ drainGot' = Append(drainGot, new_freq)
        /\ gotLog' = Append(gotLog, new_freq)
        /\ IF NeedsRestart(new_freq, current_freq)
           THEN current_freq' = new_freq /\ pc' = "kill"
           ELSE current_freq' = current_freq /\ pc' = "drain"
    /\ UNCHANGED <<srvRet, proc, conn, terminate_flag, raw>>
    /\ UNCHANGED <<capt, net, hist, flt, nputs>>
    /\ UNCHANGED <<drainPending, drainRestarts, drainStartFreq>>
    /\ putLog' = putLog
    /\ UNCHANGED <<frm, den>>

\* line 86 with the queue empty: the drain is over.
DrainDone ==
    /\ pc = "drain"
    /\ QueueEmpty(freq_queue)
    /\ pc' = "read"
    /\ UNCHANGED <<srvRet, current_freq, proc, conn, freq_queue, terminate_flag, raw>>
    /\ UNCHANGED <<capt, net, hist, drn, flt, nputs>>
    /\ UNCHANGED req
    /\ UNCHANGED <<frm, den>>

\* line 91: proc.kill()
Kill ==
    /\ pc = "kill"
    /\ pstate' = [pstate EXCEPT ![proc] = Killed(@)]
    /\ pc' = "wait"
    /\ UNCHANGED <<srvRet, current_freq, proc, conn, freq_queue, terminate_flag, raw>>
    /\ UNCHANGED <<nspawn, sfreq, pipe, nout, net, hist, drn, flt, nputs>>
    /\ UNCHANGED req
    /\ UNCHANGED <<frm, den>>

\* line 92: proc.wait(); what the dead process left in its pipe is never
\* read, proc is assigned again before the next read.
Wait ==
    /\ pc = "wait"
    /\ pstate' = [pstate EXCEPT ![proc] = Waited(@)]
    /\ pipe' = [pipe EXCEPT ![proc] = <<>>]
    /\ pc' = "spawn"
    /\ UNCHANGED <<srvRet, current_freq, proc, conn, freq_queue, terminate_flag, raw>>
    /\ UNCHANGED <<nspawn, sfreq, nout, net, hist, drn, flt, nputs>>
    /\ UNCHANGED req
    /\ UNCHANGED <<frm, den>>

\* lines 98-100: read a chunk; a short one is dropped and the loop continues.
ReadChunk ==
    /\ pc = "read"
    /\ CanRead(pipe[proc], CHUNK_SIZE * 2, pstate[proc] # "running")
    /\ raw' = ReadBytes(pipe[proc], CHUNK_SIZE * 2)
    /\ pipe' = [pipe EXCEPT ![proc] = RestBytes(@, CHUNK_SIZE * 2)]
    /\ IF IsShort(Len(raw'))
       THEN pc' = "while" /\ skipped' = skipped \cup Range(raw')
       ELSE pc' = "send" /\ skipped' = skipped
    /\ UNCHANGED <<srvRet, current_freq, proc, conn, freq_queue, terminate_flag>>
    /\ UNCHANGED <<nspawn, pstate, sfreq, nout, net, flt, nputs, drn>>
    /\ UNCHANGED <<delivered, lost, listenCalls, sendFails>>
    /\ UNCHANGED req
    /\ UNCHANGED <<frm, den>>

\* lines 102-116: the chunk is framed, denoised and sent; a caught failure
\* closes the connection and calls start_tcp_server, any other one unwinds.
\* The pipeline follows which byte each sample sent comes from: iq holds,
\* for each complex sample, the byte behind its real and its imaginary part.
SendChunk ==
    /\ pc = "send"
    /\ \E out \in SendOutcomes :
        \/ /\ out = "ok"
           /\ delivered' = Append(delivered,
                [c |-> conn, bytes |-> raw, f |-> current_freq,
                 iq |-> Assemble(Stride2(raw, 0), Stride2(raw, 1))])
           /\ pc' = "while"
           /\ UNCHANGED <<srvRet, open, down, lost, sendFails, flt>>
        \/ /\ out # "ok" /\ Caught(out)
           /\ lost' = lost \cup {raw}
           /\ open' = CloseConn(open, conn)
           /\ sendFails' = sendFails + 1
           /\ down' = TRUE
           /\ srvRet' = "L116"
           /\ pc' = "bind"
           /\ UNCHANGED <<delivered, flt>>
        \/ /\ out # "ok" /\ ~Caught(out)
           /\ fault' = out
           /\ faultAt' = pc
           /\ pc' = "crashed"
           /\ UNCHANGED <<srvRet, open, down, delivered, lost, sendFails>>
    /\ UNCHANGED <<current_freq, proc, conn, freq_queue, terminate_flag, raw>>
    /\ UNCHANGED <<capt, nconn, listeners, skipped, listenCalls, drn, nputs>>
    /\ UNCHANGED req
    /\ UNCHANGED <<frm, den>>

\* An orchestrator that notices a shutdown request only where it tests
\* terminate_flag (line 83).
InterruptAtLoopTest == {"while"}

\* The places where the interpreter raises KeyboardInterrupt in the main
\* thread: between two statements of iq_processing_loop and inside its
\* blocking calls (read, accept, wait).
InterruptPoints == LivePcs

\* SIGINT: KeyboardInterrupt is raised in the main thread and unwinds
\* iq_processing_loop to the except clause of main (line 122).
Interrupt ==
    /\ pc \in InterruptPoints
    /\ pc' = "handler"
    /\ UNCHANGED <<srvRet, current_freq, proc, conn, freq_queue, terminate_flag, raw>>
    /\ UNCHANGED <<capt, net, hist, drn, flt, nputs>>
    /\ UNCHANGED req
    /\ UNCHANGED <<frm, den>>

\* lines 123-129: the except clause of main, up to sys.exit(0).
Handler ==
    /\ pc = "handler"
    /\ terminate_flag' = TRUE
    /\ pstate' = IF proc # 0 THEN [pstate EXCEPT ![proc] = Killed(@)] ELSE pstate
    /\ open' = IF conn # 0 THEN CloseConn(open, conn) ELSE open
    /\ pc' = "exited"
    /\ UNCHANGED <<srvRet, current_freq, proc, conn, freq_queue, raw>>
    /\ UNCHANGED <<nspawn, sfreq, pipe, nout, nconn, listeners, down>>
    /\ UNCHANGED <<hist, drn, flt, nputs>>
    /\ UNCHANGED req
    /\ UNCHANGED <<frm, den>>

\* ------------------------------------------------------- producer thread
\* A producer that applies the entry itself, through the global
\* current_freq it declares, besides queueing it.
PutWritesFreq ==
    /\ ~terminate_flag
    /\ pc \in LivePcs
    /\ nputs < MaxPuts
    /\ \E mhz \in InputsMHz :
        /\ freq_queue' = Append(freq_queue, ParseFreq(mhz))
        /\ putLog' = Append(putLog, ParseFreq(mhz))
        /\ current_freq' = ParseFreq(mhz)
    /\ nputs' = nputs + 1
    /\ UNCHANGED <<pc, srvRet, proc, conn, terminate_flag, raw>>
    /\ UNCHANGED <<capt, net, hist, drn, flt, gotLog, frm, den>>

\* frequency_input_loop lines 67-73: one valid entry is parsed and queued.
\* The thread is a daemon: it ends with the process.
Put ==
    /\ ~terminate_flag
    /\ pc \in LivePcs
    /\ nputs < MaxPuts
    /\ \E mhz \in InputsMHz :
        /\ freq_queue' = Append(freq_queue, ParseFreq(mhz))
        /\ putLog' = Append(putLog, ParseFreq(mhz))
    /\ nputs' = nputs + 1
    /\ UNCHANGED <<pc, srvRet, current_freq, proc, conn, terminate_flag, raw>>
    /\ UNCHANGED <<capt, net, hist, drn, flt>>
    /\ gotLog' = gotLog
    /\ UNCHANGED <<frm, den>>

\* ------------------------------------------------------ capture processes
\* A running rtl_sdr writes one more byte to its stdout pipe. A byte is
\* identified by its process and its offset in that process's output; g
\* records whether it was written while the delivery channel was down.
\* The model follows the processes until the Python process ends.
Produce ==
    \E s \in Sessions :
        /\ pc \in LivePcs
        /\ pstate[s] = "running"
        /\ TotalOut < MaxOut
        /\ Len(pipe[s]) < PipeCap
        /\ pipe' = [pipe EXCEPT ![s] = Append(@, [s |-> s, o |-> nout[s], g |-> down])]
        /\ nout' = [nout EXCEPT ![s] = @ + 1]
        /\ UNCHANGED <<prog, nspawn, pstate, sfreq, net, hist, drn, flt, nputs>>
        /\ UNCHANGED req
        /\ UNCHANGED <<frm, den>>

\* A running rtl_sdr exits on its own (no device, device unplugged).
ProcExit ==
    \E s \in Sessions :
        /\ pc \in LivePcs
        /\ pstate[s] = "running"
        /\ pstate' = [pstate EXCEPT ![s] = "exited"]
        /\ UNCHANGED <<prog, nspawn, sfreq, pipe, nout, net, hist, drn, flt, nputs>>
        /\ UNCHANGED req
        /\ UNCHANGED <<frm, den>>

Next ==
    \/ StartRtlSdr
    \/ SpawnFault
    \/ AssignProc
    \/ TcpBind
    \/ ServerFault
    \/ TcpAccept
    \/ While
    \/ DrainGet
    \/ DrainDone
    \/ Kill
    \/ Wait
    \/ ReadChunk
    \/ SendChunk
    \/ Interrupt
    \/ Handler
    \/ Put
    \/ Produce
    \/ ProcExit

Spec == Init /\ [][Next]_vars

\* The main thread keeps running once KeyboardInterrupt is raised: nothing
\* between the raise and the except clause of main blocks (no finally, no
\* with), and kill, close and sys.exit do not block; the producer is a
\* daemon thread, which the interpreter does not wait for.
SpecLive == Spec /\ WF_vars(Handler)

\* The statements of iq_processing_loop that return normally.
Orchestrator ==
    \/ StartRtlSdr
    \/ AssignProc
    \/ TcpBind
    \/ While
    \/ DrainGet
    \/ DrainDone
    \/ Kill
    \/ Wait
    \/ ReadChunk
    \/ SendChunk

\* The main thread is scheduled as long as it can take a step, a running
\* rtl_sdr keeps writing samples, and a consumer connects to a listening
\* server.
SpecReq == Spec /\ WF_vars(Orchestrator) /\ WF_vars(Produce) /\ WF_vars(TcpAccept)

\* ------------------------------------------------------------ framing alone
\* Byte values: all of them for the chunks of one complex sample, the ends
\* and the middle of the range for the longer chunks.
AllBytes == 0..255
ByteVals == {0, 1, 127, 128, 254, 255}

\* A centring that uses 127 for the midpoint and the scale.
NormBy127(b) == [num |-> b - 127, den |-> 127]

\* line 103: (iq - 127.5) / 127.5, as the fraction num / den.
Norm(b) == [num |-> 2 * b - 255, den |-> 255]

\* A chunk of 2 * N bytes has been read (line 98).
FrameInit ==
    /\ PipelineInit
    /\ DenoiseIdle
    /\ chunk \in [1..2 -> AllBytes]
                 \cup UNION {[1..(2 * n) -> ByteVals] : n \in 2..FrameMaxN}
    /\ fI = <<>>
    /\ fQ = <<>>

\* lines 102-105: the bytes become floats, are centred and scaled, and are
\* split into the I and the Q channel.
FrameChunk ==
    /\ fI = <<>>
    /\ LET iq == [k \in DOMAIN chunk |-> Norm(chunk[k])] IN
        /\ fI' = Stride2(iq, 0)
        /\ fQ' = Stride2(iq, 1)
    /\ UNCHANGED <<pipeline, chunk, den>>

FrameNext == FrameChunk

SpecFrame == FrameInit /\ [][FrameNext]_vars

\* -------------------------------------------------------- the denoiser alone
\* Integer square root, and the quotient rounded towards zero.
RECURSIVE ISqrtIn(_, _, _)
ISqrtIn(n, lo, hi) ==
    IF lo = hi THEN lo
    ELSE LET mid == (lo + hi + 1) \div 2 IN
         IF mid <= n \div mid THEN ISqrtIn(n, mid, hi) ELSE ISqrtIn(n, lo, mid - 1)
ISqrt(n) == ISqrtIn(n, 0, n)
Quot(a, b) == IF a >= 0 THEN a \div b ELSE -((-a) \div b)

\* lines 25-26: smooth_l1(x) = sqrt(x**2 + EPSILON**2)
smooth_l1(x) == ISqrt(x * x + EPSILON * EPSILON)

\* A gradient that takes the slope of the penalty for 1 everywhere.
GradAtConstPenalty(x, target) == (x - target) + LAMBDA_L1

\* line 35, one component:
\* (x - target) + LAMBDA_L1 * x / np.sqrt(x**2 + EPSILON**2)
GradAt(x, target) == (x - target) + Quot(LAMBDA_L1 * x, smooth_l1(x))

\* lines 33-36: grad(x)
grad(x, target) == [k \in DOMAIN x |-> GradAt(x[k], target[k])]

Zeros(v) == [k \in DOMAIN v |-> 0]

\* Sample values: -1 and 1, the images of the bytes 127 and 128, and 0.
DenVals == {-Milli, -4, 0, 4, Milli}

\* denoise_vector is called with data; line 39: x0 = np.zeros_like(data).
DenoiseInit ==
    /\ PipelineInit
    /\ FrameIdle
    /\ dv \in UNION {[1..n -> DenVals] : n \in 1..DenMaxLen}
    /\ dx = Zeros(dv)
    /\ dit = 0
    /\ dstat = "run"

\* lines 40-46: one iteration of minimize. L-BFGS-B is scipy's code; it is
\* followed here as a descent method that moves the iterate against the
\* gradient jac gives it, as its first iteration does.
SolverStep ==
    /\ dstat = "run"
    /\ dit < MAXITER
    /\ grad(dx, dv) # Zeros(dv)
    /\ dx' = [k \in DOMAIN dx |-> dx[k] - grad(dx, dv)[k]]
    /\ dit' = dit + 1
    /\ UNCHANGED <<pipeline, frm, dv, dstat>>

\* lines 40-47: minimize stops where the gradient vanishes, or at maxiter,
\* and result.x is returned.
SolverStop ==
    /\ dstat = "run"
    /\ (grad(dx, dv) = Zeros(dv) \/ dit = MAXITER)
    /\ dstat' = "done"
    /\ UNCHANGED <<pipeline, frm, dv, dx, dit>>

DenoiseNext ==
    \/ SolverStep
    \/ SolverStop

SpecDenoise == DenoiseInit /\ [][DenoiseNext]_vars

\* ==================================================================== claims
\* Capture processes that are spawned and not yet reaped.
Unreaped == {s \in Sessions : pstate[s] \in {"running", "exited", "killed"}}

IsPrefix(p, q) == Len(p) <= Len(q) /\ SubSeq(q, 1, Len(p)) = p

\* C1: a drain that dequeues exactly the requests pending when it began
\* performs one capture restart if the last of them differs from the
\* frequency current before the drain, and none if it equals it.
C1_Coalescing ==
    (pc = "read" /\ drainPending # <<>> /\ drainGot = drainPending)
        => drainRestarts = (IF Last(drainPending) # drainStartFreq THEN 1 ELSE 0)

\* C2: when a drain completes having dequeued at least one value,
\* current_freq is the last value dequeued and proc is the one unreaped
\* capture process, started with that frequency.
C2_LastWriteWins ==
    (pc = "read" /\ drainGot # <<>>)
        => /\ current_freq = Last(drainGot)
           /\ proc = nspawn
           /\ sfreq[proc] = Last(drainGot)
           /\ Unreaped \subseteq {proc}

\* A drain that completed after two restarts, one of them for a value the
\* producer put while the drain was running.
C2_Witness ==
    /\ pc = "read"
    /\ Len(drainGot) = 2
    /\ Len(drainPending) = 1
    /\ drainRestarts = 2

\* C3: at most one capture process is spawned and not yet reaped.
C3_OneCapture == Cardinality(Unreaped) <= 1

\* The second restart has spawned the third process; the first two are
\* reaped.
C3_Witness ==
    /\ nspawn = 3
    /\ pstate[3] = "running"
    /\ pstate[1] = "reaped"
    /\ pstate[2] = "reaped"

C5_NoGapBytes ==
    \A i \in DOMAIN delivered : \A b \in Range(delivered[i].bytes) : ~b.g

\* C6: every chunk that reaches the send, and every chunk delivered, has
\* the full 2 * CHUNK_SIZE bytes and holds no byte of a short read; the step
\* that reads a short chunk goes back to the loop test and leaves the
\* capture session, the delivery session and what was delivered unchanged.
C6_Full ==
    /\ pc = "send" => Len(raw) = 2 * CHUNK_SIZE /\ Range(raw) \cap skipped = {}
    /\ \A i \in DOMAIN delivered :
        /\ Len(delivered[i].bytes) = 2 * CHUNK_SIZE
        /\ Range(delivered[i].bytes) \cap skipped = {}

C6_Step ==
    (pc = "read" /\ pc' \notin {"read", "handler"} /\ Len(raw') < 2 * CHUNK_SIZE)
        => /\ pc' = "while"
           /\ Range(raw') \subseteq skipped'
           /\ UNCHANGED <<proc, conn, current_freq, nspawn, pstate, sfreq, nconn, open>>
           /\ UNCHANGED <<delivered, lost, listenCalls, sendFails>>

C6_ShortRead == [](C6_Full) /\ [][C6_Step]_vars

\* A short read dropped a byte, and a full chunk was delivered afterwards
\* without it.
C6_Witness ==
    /\ skipped # {}
    /\ \E i \in DOMAIN delivered : \E b \in skipped :
        delivered[i].bytes[1].s > b.s

\* C7: when the process has exited after an interrupt, no capture process is
\* running, no accepted connection is open and no listening socket is open.
C7_LeakFree ==
    pc = "exited" =>
        /\ \A s \in Sessions : pstate[s] # "running"
        /\ open = {}
        /\ listeners = 0

\* C8: a read at end of file of a capture process that exited without
\* writing anything ends the pipeline; the loop does not go on.
C8_DeadCaptureAborts ==
    [][(pc = "read" /\ pstate[proc] = "exited" /\ nout[proc] = 0 /\ pc' # pc)
        => pc' \in {"crashed", "handler"}]_vars

\* C9: the process never ends with an uncaught exception raised by the
\* send of a chunk or by start_tcp_server while re-listening at line 116.
C9_FaultContainment ==
    pc = "crashed" =>
        /\ faultAt # "send"
        /\ ~(faultAt \in ServerPcs /\ srvRet = "L116")

\* C10: current_freq changes only in the drain and each value dequeued is
\* current_freq right after its dequeue; a capture process is spawned,
\* killed, reaped or assigned to proc only by the statements of the restart
\* (or of the start, or by the interrupt); the chunk being sent and every
\* chunk delivered holds bytes of one capture process, the one started with
\* the frequency current at its read; and when a chunk is read every request
\* that was pending when the drain began has been dequeued.
C10_Chunk ==
    /\ pc = "send" =>
        \A b \in Range(raw) : b.s = proc /\ sfreq[b.s] = current_freq
    /\ \A i \in DOMAIN delivered : \A b \in Range(delivered[i].bytes) :
        b.s = delivered[i].bytes[1].s /\ sfreq[b.s] = delivered[i].f
    /\ pc \in {"read", "send"} => IsPrefix(drainPending, drainGot)

C10_Step ==
    /\ current_freq' # current_freq => pc = "drain"
    /\ (drainGot' # drainGot /\ drainGot' # <<>>) => current_freq' = Last(drainGot')
    /\ proc' # proc => pc \in {"assign0", "assign"}
    /\ nspawn' # nspawn => pc \in {"spawn0", "spawn"}
    /\ (\E s \in Sessions : pstate[s] \in {"running", "exited"}
                            /\ pstate'[s] \in {"killed", "reaped"})
        => pc \in {"kill", "wait", "handler"}

C10_Boundary == [](C10_Chunk) /\ [][C10_Step]_vars

\* Two chunks were delivered, read from two capture processes started at
\* two frequencies, and the second drain had a request pending.
C10_Witness ==
    /\ Len(delivered) = 2
    /\ delivered[1].f # delivered[2].f
    /\ delivered[1].bytes[1].s # delivered[2].bytes[1].s
    /\ drainPending # <<>>

\* C11: the chunk being processed, and every chunk delivered, is a run of
\* consecutive bytes of one capture process's output that begins at an even
\* offset: its bytes at even positions were written as I, the others as Q.
Aligned(bytes) ==
    /\ bytes[1].o % 2 = 0
    /\ \A k \in DOMAIN bytes : bytes[k].s = bytes[1].s /\ bytes[k].o = bytes[1].o + k - 1

C11_Alignment ==
    /\ pc = "send" => Aligned(raw)
    /\ \A i \in DOMAIN delivered : Aligned(delivered[i].bytes)

\* After a consumer disconnect, the chunk at offset 2 of the capture
\* process's output was delivered.
C11_Witness ==
    /\ sendFails >= 1
    /\ \E i \in DOMAIN delivered : delivered[i].bytes[1].o = 2

\* Byte a was read before byte b: capture processes are read one after the
\* other, each from its first byte on.
ReadBefore(a, b) == a.s < b.s \/ (a.s = b.s /\ a.o < b.o)

\* C12: every chunk delivered carries exactly CHUNK_SIZE complex samples,
\* the k-th with its real part from the k-th I byte and its imaginary part
\* from the k-th Q byte of that chunk, and the chunks are delivered in the
\* order they were read, none twice.
C12_OrderAndUnit ==
    /\ \A i \in DOMAIN delivered :
        /\ Len(delivered[i].iq) = CHUNK_SIZE
        /\ \A k \in 1..CHUNK_SIZE :
            /\ delivered[i].iq[k].re = delivered[i].bytes[2 * k - 1]
            /\ delivered[i].iq[k].im = delivered[i].bytes[2 * k]
    /\ \A i, j \in DOMAIN delivered :
        i < j => ReadBefore(delivered[i].bytes[1], delivered[j].bytes[1])

\* Two chunks of one capture process were delivered one after the other.
C12_Witness ==
    /\ Len(delivered) = 2
    /\ delivered[1].bytes[1].s = delivered[2].bytes[1].s
    /\ delivered[2].iq[1].im.o = 3

\* The fraction r is (b - 127.5) / 127.5.
IsImage(r, b) == r.den > 0 /\ 255 * r.num = (2 * b - 255) * r.den

\* The fraction r lies in [-1, 1].
InUnit(r) == r.den > 0 /\ -r.den <= r.num /\ r.num <= r.den

\* C13: framing a chunk of 2N bytes gives I and Q of length N each, I[k] the
\* image of the byte at index 2k and Q[k] of the byte at index 2k+1 (from 0)
\* under b -> (b - 127.5) / 127.5, every value in [-1, 1].
C13_Framing ==
    fI # <<>> =>
        /\ Len(fI) = Len(chunk) \div 2
        /\ Len(fQ) = Len(chunk) \div 2
        /\ \A k \in 1..(Len(chunk) \div 2) :
            /\ IsImage(fI[k], chunk[2 * k - 1])
            /\ IsImage(fQ[k], chunk[2 * k])
            /\ InUnit(fI[k])
            /\ InUnit(fQ[k])

\* The chunk 127, 128, 0, 255 has been framed: I holds the images of 127 and
\* 0, Q those of 128 and 255, which is 1.
C13_Witness ==
    /\ chunk = <<127, 128, 0, 255>>
    /\ Len(fI) = 2
    /\ fI[2].num = -fI[2].den
    /\ fQ[2].num = fQ[2].den

\* C14: a step of the producer thread appends one value to freq_queue and
\* changes nothing else of the program's state; every step that changes
\* current_freq, proc or conn is a step of the orchestrator thread.
C14_ProducerStep ==
    putLog' # putLog =>
        /\ \E v \in {ParseFreq(m) : m \in InputsMHz} : freq_queue' = Append(freq_queue, v)
        /\ UNCHANGED <<pc, srvRet, current_freq, proc, conn, terminate_flag, raw>>
        /\ UNCHANGED <<capt, net>>

C14_OwnerStep ==
    (current_freq' # current_freq \/ proc' # proc \/ conn' # conn)
        => (putLog' = putLog /\ pc' # pc /\ pc \in {"drain", "assign0", "assign", "accept"})

C14_Ownership == [][C14_ProducerStep /\ C14_OwnerStep]_vars

\* The producer has queued two values while the orchestrator holds a
\* capture process and a connection; current_freq is still the default.
C14_Witness ==
    /\ Len(putLog) = 2
    /\ Len(freq_queue) = 2
    /\ proc = 1
    /\ conn = 1
    /\ current_freq = DEFAULT_FREQ

\* C15: at most one accepted connection is open, and it is the one conn
\* refers to; none is open while start_tcp_server waits in accept; every
\* call of listen is followed by the accept of exactly one connection.
C15_SingleConsumer ==
    /\ Cardinality(open) <= 1
    /\ open \subseteq {conn}
    /\ pc = "accept" => open = {}
    /\ pc \in LivePcs => nconn + (IF pc = "accept" THEN 1 ELSE 0) = listenCalls

\* After a send failure the second consumer is connected and the first
\* connection is closed.
C15_Witness ==
    /\ sendFails = 1
    /\ nconn = 2
    /\ open = {2}
    /\ listenCalls = 2

\* C16: for an input vector of zeros, of any length, denoise_vector returns
\* the zero vector of that length, and the solver has not left its starting
\* point; the result has the length of the input for every input.
C16_ZeroFixedPoint ==
    /\ Len(dx) = Len(dv)
    /\ (dstat = "done" /\ dv = Zeros(dv)) => (dx = dv /\ dit = 0)

\* denoise_vector has returned for the input 0, 0.
C16_Witness ==
    /\ dstat = "done"
    /\ dv = <<0, 0>>
    /\ dx = <<0, 0>>

\* C17: KeyboardInterrupt can be raised at every point of the orchestrator
\* before it has ended, its blocking read and accept and the skipping of
\* short reads included; once raised, the except clause of main runs to
\* sys.exit; and from the raise on there is no restart of the capture
\* process, no chunk read, no send and no change of current_freq.
ShutPcs == {"handler", "exited"}

C17_Deliverable == pc \in LivePcs => ENABLED Interrupt

C17_Terminal ==
    pc \in ShutPcs =>
        /\ pc' \in ShutPcs
        /\ UNCHANGED <<nspawn, raw, delivered, lost, current_freq, proc, gotLog, nconn>>

C17_Shutdown ==
    /\ []C17_Deliverable
    /\ (pc = "handler" ~> (pc = "exited" /\ terminate_flag))
    /\ [][C17_Terminal]_vars

\* The process has exited after an interrupt that found the orchestrator
\* blocked in accept, waiting for its first consumer.
C17_Witness ==
    /\ pc = "exited"
    /\ terminate_flag
    /\ listeners = 1
    /\ nconn = 0

\* C18: the values put on freq_queue are, in order, the values dequeued so
\* far followed by the values still queued: none is lost, none is dequeued
\* twice. And with the main thread scheduled, the capture process writing
\* and a consumer connecting, the run settles: the process has ended (fault
\* or interrupt), or the capture process has stopped writing and the read
\* of line 98 blocks, or the queue is empty and the process held in proc
\* was started at the last value put.
C18_Ended == pc \in {"handler", "exited", "crashed"}

C18_Starved ==
    /\ pc = "read"
    /\ TotalOut = MaxOut
    /\ ~CanRead(pipe[proc], CHUNK_SIZE * 2, pstate[proc] # "running")

C18_Applied ==
    /\ freq_queue = <<>>
    /\ putLog # <<>> => (proc # 0 /\ sfreq[proc] = Last(putLog))

C18_NoLossNoStall ==
    /\ [](putLog = gotLog \o freq_queue)
    /\ <>[](C18_Ended \/ C18_Starved \/ C18_Applied)

\* Two different values were put and both were dequeued; the third process,
\* started at the second value, is running and being read.
C18_Witness ==
    /\ Len(putLog) = 2
    /\ putLog[1] # putLog[2]
    /\ gotLog = putLog
    /\ nspawn = 3
    /\ proc = 3
    /\ sfreq[proc] = Last(putLog)
    /\ pstate[proc] = "running"
    /\ pc = "read"

====
